---------------------------- MODULE Spec2Model ----------------------------
(***************************************************************************)
(* Ledger of the vibesy ticketing backend: one local event with a finite   *)
(* capacity, the orders placed on it, the tickets issued for the orders,   *)
(* and the request handlers that change them.  Every handler is an async   *)
(* function; each await is a point where other handlers may run, so each   *)
(* await is one step of the handler's process.                             *)
(*                                                                         *)
(* Database semantics (PostgreSQL, READ COMMITTED):                        *)
(*  - a statement sent on a client obtained with db.connect() between      *)
(*    BEGIN and COMMIT is buffered in the handler's locals and becomes     *)
(*    visible to others at COMMIT only; ROLLBACK drops it;                 *)
(*  - SELECT ... FOR UPDATE takes the row lock and waits while another     *)
(*    transaction holds it; an UPDATE of a locked row waits too;           *)
(*  - db.query() takes its own connection from the pool, runs one          *)
(*    statement in autocommit mode and gives the connection back;          *)
(*  - pool.connect() fails after connectionTimeoutMillis when all          *)
(*    connections of the pool are checked out.                             *)
(***************************************************************************)
EXTENDS Integers, Sequences, FiniteSets, TLC

\* ------------------------------------------------------------------ bounds
\* Number of request handlers that can be in flight at the same time.
NumProcs == 2
\* Connections of the pool (the code configures 20; scaled with NumProcs so
\* that handlers can exhaust it).
PoolMax == 2
\* Capacity of the event of the fixture.
Capacity == 3
\* Largest quantity a buyer asks for in the model (the code allows up to
\* QuantityCeiling).
MaxQty == 2
\* Orders the model lets buyers create.
MaxOrders == 2

\* starts_at of the event of the fixture, in minutes.
StartsAt == 100

\* generateOTP calls in a behaviour.
MaxIssues == 2

\* verifyOTP calls that compare a candidate, per passcode issued.
MaxVerifies == 5

\* Runs of the event sync job that get past the in-progress check.
MaxRuns == 3

\* Events fetchGoogleEvents returns at most.
MaxEvents == 2

\* Half a second, in milliseconds: the grain of the clock near the expiry.
HalfSecond == 500

\* ------------------------------------------------------- program constants
QuantityFloor == 1
QuantityCeiling == 10
\* eventStartTime.getTime() - 60 * 60000 and + 30 * 60000
EntryOpensMinutesBefore == 60
EntryClosesMinutesAfter == 30
\* OTPService
DEFAULT_EXPIRY_MINUTES == 5
MAX_ATTEMPTS == 3
OTP_LENGTH == 6
\* DEFAULT_EXPIRY_MINUTES * 60 * 1000
SecondsPerMinute == 60
MillisPerSecond == 1000

Procs == 1..NumProcs
NoProc == 0
OrderIds == 1..MaxOrders
\* The payment reference of order o is o; a reference with no order yet is
\* the id of an order that has not been created.
PaymentRefs == OrderIds

Min(a, b) == IF a < b THEN a ELSE b

\* quantity: Joi.number().integer().min(1).max(10)
Quantities == QuantityFloor..Min(MaxQty, QuantityCeiling)

VARIABLES
  tickets_sold,  \* events.tickets_sold of the event (committed value)
  eventLock,     \* process holding the event row lock, or NoProc
  orders,        \* committed rows of orders, order id = index
  orderLock,     \* orderLock[o]: process holding the row lock of order o
  tickets,       \* tickets[o]: committed ticket rows with order_id = o
  poolInUse,     \* connections of the pool that are checked out
  otherInUse,    \* those of them held by db.query() calls of other routes
  acked,         \* acked[o]: the processor got a 2xx answer to a
                 \* payment_intent.succeeded event of order o (history)
  now,           \* the server's clock: minutes at the venue, milliseconds
                 \* for the one-time passcodes
  otpStore,      \* the value of the Redis key otp:<identifier>, with the
                 \* time at which Redis expires it, or NoOtp
  otpHist,       \* what happened to the passcode issued last (history)
  job,           \* the EventSyncJob instance: isRunning and stats; fetches
                 \* counts the calls of fetchGoogleEvents (history)
  pc,            \* pc[p]: where handler p stands
  loc            \* loc[p]: the locals of handler p

vars ==
  <<tickets_sold, eventLock, orders, orderLock, tickets, poolInUse, otherInUse,
    acked, now, otpStore, otpHist, job, pc, loc>>

\* What the handlers of the ledger (reservation, webhooks) never touch.
venueVars == <<now, otpStore, otpHist, job>>

\* What the handlers at the venue (scan, verify) never touch.
otpVars == <<otpStore, otpHist, job>>

\* No record under the key.
NoOtp == [code |-> << >>, expiresAt |-> 0, attempts |-> 0, ttlEnd |-> 0]

\* No passcode issued yet. issued: generateOTP calls so far; wrong: verifyOTP
\* calls on the passcode issued last that compared a wrong candidate and
\* returned false; trues: those that returned true.
NoHist == [issued |-> 0, wrong |-> 0, trues |-> 0]

\* The job as constructed: not running, no run counted.
NoJob ==
  [isRunning |-> FALSE, successCount |-> 0, errorCount |-> 0,
   totalEventsProcessed |-> 0, fetches |-> 0]

\* Locals of a handler that runs no request.
NoLocals ==
  [op |-> "none", ref |-> 0, qty |-> 0, ostatus |-> "none", oevent |-> "none",
   txstatus |-> "none", i |-> 0, cnt |-> 0, err |-> FALSE, status |-> 0,
   token |-> <<0, 0>>, scanner |-> "none", tstatus |-> "none", msg |-> "",
   at |-> 0, code |-> << >>, rec |-> NoOtp, gen |-> 0,
   sold0 |-> 0, orders0 |-> 0, sig |-> "none"]

\* A row of tickets as INSERT INTO tickets leaves it (status defaults to valid).
NewTicket(kind) ==
  [event |-> kind, status |-> "valid", scanned_at |-> 0, scanned_by |-> 0]

\* A row of orders as the reservation transaction inserts it.
NewOrder(q) == [quantity |-> q, status |-> "pending", event |-> "local"]

Init ==
  /\ tickets_sold = 0
  /\ eventLock = NoProc
  /\ orders = << >>
  /\ orderLock = [o \in OrderIds |-> NoProc]
  /\ tickets = [o \in OrderIds |-> << >>]
  /\ poolInUse = 0
  /\ otherInUse = 0
  /\ now = 0
  /\ otpStore = NoOtp
  /\ otpHist = NoHist
  /\ job = NoJob
  /\ acked = [o \in OrderIds |-> FALSE]
  /\ pc = [p \in Procs |-> "idle"]
  /\ loc = [p \in Procs |-> NoLocals]

\* ------------------------------------------------------------------- pool
PoolHasFree == poolInUse < PoolMax

OrderExists(ref) == ref \in 1..Len(orders)

\* The handler finishes with an HTTP response; of its locals the model
\* keeps the request, the tickets it created, whether it caught an error
\* and, for a reservation, the quantity asked and what the event and the
\* orders were when the request came in (sold0, orders0: history).
Respond(p, code, failed) ==
  /\ pc' = [pc EXCEPT ![p] = "done"]
  /\ loc' = [loc EXCEPT ![p] =
       [NoLocals EXCEPT !.op = loc[p].op, !.ref = loc[p].ref, !.i = loc[p].i,
                        !.status = code, !.err = failed,
                        !.qty = IF loc[p].op = "reserve" THEN loc[p].qty ELSE 0,
                        !.sold0 = loc[p].sold0, !.orders0 = loc[p].orders0]]
  /\ acked' = IF /\ loc[p].op = "payment_intent.succeeded"
                 /\ code = 200
                 /\ OrderExists(loc[p].ref)
               THEN [acked EXCEPT ![loc[p].ref] = TRUE]
               ELSE acked
  /\ UNCHANGED venueVars

\* Any other route of the server runs db.query(): pool.connect(), the
\* statement, client.release().
OtherQueryBegin ==
  /\ PoolHasFree
  /\ poolInUse' = poolInUse + 1
  /\ otherInUse' = otherInUse + 1
  /\ UNCHANGED <<tickets_sold, eventLock, orders, orderLock, tickets, pc, loc, acked, venueVars>>

OtherQueryEnd ==
  /\ otherInUse > 0
  /\ poolInUse' = poolInUse - 1
  /\ otherInUse' = otherInUse - 1
  /\ UNCHANGED <<tickets_sold, eventLock, orders, orderLock, tickets, pc, loc, acked, venueVars>>

\* The response has been sent; the process can take the next request.
Return(p) ==
  /\ pc[p] = "done"
  /\ pc' = [pc EXCEPT ![p] = "idle"]
  /\ loc' = [loc EXCEPT ![p] = NoLocals]
  /\ UNCHANGED <<tickets_sold, eventLock, orders, orderLock, tickets, poolInUse, otherInUse, acked, venueVars>>

\* ------------------------------------------------- POST /payments/intent
\* The request passed validation (quantity in 1..10) and the checks on the
\* event and its host; the payment intent exists at the processor.
StartReserve(p) ==
  /\ pc[p] = "idle"
  /\ Len(orders) + Cardinality({q \in Procs : pc[q] \in {"rv_connect", "rv_lock", "rv_check", "rv_commit"}})
       < MaxOrders
  /\ \E q \in Quantities :
       loc' = [loc EXCEPT ![p] =
         [NoLocals EXCEPT !.op = "reserve", !.qty = q,
                          !.sold0 = tickets_sold, !.orders0 = Len(orders)]]
  /\ pc' = [pc EXCEPT ![p] = "rv_connect"]
  /\ UNCHANGED <<tickets_sold, eventLock, orders, orderLock, tickets, poolInUse, otherInUse, acked, venueVars>>

\* const client = await db.connect()
ReserveConnect(p) ==
  /\ pc[p] = "rv_connect"
  /\ PoolHasFree
  /\ poolInUse' = poolInUse + 1
  /\ UNCHANGED otherInUse
  /\ pc' = [pc EXCEPT ![p] = "rv_lock"]
  /\ UNCHANGED <<tickets_sold, eventLock, orders, orderLock, tickets, loc, acked, venueVars>>

\* db.connect() rejects: the error reaches the error middleware.
ReserveConnectTimeout(p) ==
  /\ pc[p] = "rv_connect"
  /\ ~PoolHasFree
  /\ Respond(p, 500, TRUE)
  /\ UNCHANGED <<tickets_sold, eventLock, orders, orderLock, tickets, poolInUse, otherInUse>>

\* The SELECT of the reservation without FOR UPDATE: it does not wait for the
\* transaction that holds the event row.
ReserveLockNoWait(p) ==
  /\ pc[p] = "rv_lock"
  /\ eventLock' = p
  /\ loc' = [loc EXCEPT ![p].cnt = tickets_sold]
  /\ pc' = [pc EXCEPT ![p] = "rv_check"]
  /\ UNCHANGED <<tickets_sold, orders, orderLock, tickets, poolInUse, otherInUse, acked, venueVars>>

\* The reservation checking the capacity against the tickets_sold it saw
\* when the request came in, not the one read under the lock.
ReserveLockStale(p) ==
  /\ pc[p] = "rv_lock"
  /\ eventLock = NoProc
  /\ eventLock' = p
  /\ loc' = [loc EXCEPT ![p].cnt = loc[p].sold0]
  /\ pc' = [pc EXCEPT ![p] = "rv_check"]
  /\ UNCHANGED <<tickets_sold, orders, orderLock, tickets, poolInUse, otherInUse, acked, venueVars>>

\* BEGIN; SELECT tickets_sold, capacity FROM events WHERE id = $1 FOR UPDATE
ReserveLock(p) ==
  /\ pc[p] = "rv_lock"
  /\ eventLock = NoProc
  /\ eventLock' = p
  /\ loc' = [loc EXCEPT ![p].cnt = tickets_sold]
  /\ pc' = [pc EXCEPT ![p] = "rv_check"]
  /\ UNCHANGED <<tickets_sold, orders, orderLock, tickets, poolInUse, otherInUse, acked, venueVars>>

\* The capacity check comparing the tickets sold so far alone.
CapacityExceededIgnoringQuantity(sold, q) == sold > Capacity

\* currentEvent.tickets_sold + quantity > currentEvent.capacity
CapacityExceeded(sold, q) == sold + q > Capacity

\* The refusal that leaves the order it was asked for behind.
ReserveRejectKeepingOrder(p) ==
  /\ pc[p] = "rv_check"
  /\ CapacityExceeded(loc[p].cnt, loc[p].qty)
  /\ eventLock' = NoProc
  /\ poolInUse' = poolInUse - 1
  /\ UNCHANGED otherInUse
  /\ Respond(p, 400, FALSE)
  /\ orders' = Append(orders, NewOrder(loc[p].qty))
  /\ UNCHANGED <<tickets_sold, orderLock, tickets, venueVars>>

\* Capacity exceeded: ROLLBACK, throw, release the client.
ReserveReject(p) ==
  /\ pc[p] = "rv_check"
  /\ CapacityExceeded(loc[p].cnt, loc[p].qty)
  /\ eventLock' = NoProc
  /\ poolInUse' = poolInUse - 1
  /\ UNCHANGED otherInUse
  /\ Respond(p, 400, FALSE)
  /\ UNCHANGED <<tickets_sold, orders, orderLock, tickets, venueVars>>

\* INSERT INTO orders ... 'pending'; UPDATE events SET tickets_sold =
\* tickets_sold + $1 (both inside the transaction, not yet visible).
ReserveInsert(p) ==
  /\ pc[p] = "rv_check"
  /\ ~CapacityExceeded(loc[p].cnt, loc[p].qty)
  /\ pc' = [pc EXCEPT ![p] = "rv_commit"]
  /\ UNCHANGED <<tickets_sold, eventLock, orders, orderLock, tickets, poolInUse, otherInUse, loc, acked, venueVars>>

\* The reservation that commits its order without counting its quantity.
ReserveCommitOrderOnly(p) ==
  /\ pc[p] = "rv_commit"
  /\ orders' = Append(orders, NewOrder(loc[p].qty))
  /\ eventLock' = NoProc
  /\ poolInUse' = poolInUse - 1
  /\ UNCHANGED otherInUse
  /\ pc' = [pc EXCEPT ![p] = "done"]
  /\ loc' = [loc EXCEPT ![p] =
       [NoLocals EXCEPT !.op = "reserve", !.ref = Len(orders) + 1, !.status = 200,
                        !.qty = loc[p].qty, !.sold0 = loc[p].sold0,
                        !.orders0 = loc[p].orders0]]
  /\ UNCHANGED <<tickets_sold, orderLock, tickets, acked, venueVars>>

\* COMMIT; client.release(); the response carries order_id.
ReserveCommit(p) ==
  /\ pc[p] = "rv_commit"
  /\ orders' = Append(orders, NewOrder(loc[p].qty))
  /\ tickets_sold' = tickets_sold + loc[p].qty
  /\ eventLock' = NoProc
  /\ poolInUse' = poolInUse - 1
  /\ UNCHANGED otherInUse
  /\ pc' = [pc EXCEPT ![p] = "done"]
  /\ loc' = [loc EXCEPT ![p] =
       [NoLocals EXCEPT !.op = "reserve", !.ref = Len(orders) + 1, !.status = 200,
                        !.qty = loc[p].qty, !.sold0 = loc[p].sold0,
                        !.orders0 = loc[p].orders0]]
  /\ UNCHANGED <<orderLock, tickets, acked, venueVars>>

Reserve(p) ==
  \/ StartReserve(p)
  \/ ReserveConnect(p)
  \/ ReserveConnectTimeout(p)
  \/ ReserveLock(p)
  \/ ReserveReject(p)
  \/ ReserveInsert(p)
  \/ ReserveCommit(p)

\* --------------------------------------------------- POST /webhooks/stripe
\* SUPPORTED_WEBHOOK_EVENTS
SupportedWebhookEvents ==
  {"payment_intent.succeeded", "payment_intent.payment_failed",
   "account.updated", "payment_intent.requires_action"}

\* Event types the processor sends; the last one is not supported.
WebhookEventTypes == SupportedWebhookEvents \cup {"charge.refunded"}

isSupportedWebhookEvent(type) == type \in SupportedWebhookEvents

\* What the stripe-signature header of a request can be.
Signatures == {"missing", "invalid", "valid"}

\* The verification taking any signature that is present.
verifyWebhookSignatureOfAny(sig) == TRUE

\* verifyWebhookSignature returns the event (does not throw).
verifyWebhookSignature(sig) == sig = "valid"

\* The route refusing an event type it has no handler for.
UnhandledStatusRejecting(type) == 400

\* res.status(200).json({ received: true, handled: false })
UnhandledStatus(type) == 200

\* The route up to the dispatch of handleWebhookEvent: signature header,
\* verifyWebhookSignature, isSupportedWebhookEvent.
StartWebhook(p) ==
  /\ pc[p] = "idle"
  /\ \E sig \in Signatures, type \in WebhookEventTypes, ref \in PaymentRefs :
       IF sig = "missing" \/ ~verifyWebhookSignature(sig)
         THEN /\ pc' = [pc EXCEPT ![p] = "done"]
              /\ loc' = [loc EXCEPT ![p] =
                   [NoLocals EXCEPT !.op = "rejected", !.status = 400, !.sig = sig]]
       ELSE IF ~isSupportedWebhookEvent(type)
         THEN /\ pc' = [pc EXCEPT ![p] = "done"]
              /\ loc' = [loc EXCEPT ![p] =
                   [NoLocals EXCEPT !.op = type, !.status = UnhandledStatus(type),
                                    !.sig = sig]]
       ELSE /\ loc' = [loc EXCEPT ![p] =
                 [NoLocals EXCEPT !.op = type, !.sig = sig,
                    !.ref = IF type = "account.updated" THEN 0 ELSE ref]]
            /\ pc' = [pc EXCEPT ![p] =
                 CASE type = "payment_intent.succeeded" -> "ps_connect"
                   [] type = "payment_intent.payment_failed" -> "pf_connect"
                   [] type = "payment_intent.requires_action" -> "ra_query"
                   [] OTHER -> "au_done"]
  /\ UNCHANGED <<tickets_sold, eventLock, orders, orderLock, tickets, poolInUse, otherInUse, acked, venueVars>>

\* handleWebhookEvent returned without throwing: 200 {received, handled}.
\* failed: the handler caught and logged an error on its way.
Acknowledge(p, failed) == Respond(p, 200, failed)

\* --- handlePaymentSucceeded
\* const client = await db.connect()
SucceededConnect(p) ==
  /\ pc[p] = "ps_connect"
  /\ PoolHasFree
  /\ poolInUse' = poolInUse + 1
  /\ UNCHANGED otherInUse
  /\ pc' = [pc EXCEPT ![p] = "ps_lock"]
  /\ UNCHANGED <<tickets_sold, eventLock, orders, orderLock, tickets, loc, acked, venueVars>>

\* db.connect() rejects; the outer catch logs the error and returns.
SucceededConnectTimeout(p) ==
  /\ pc[p] = "ps_connect"
  /\ ~PoolHasFree
  /\ Acknowledge(p, TRUE)
  /\ UNCHANGED <<tickets_sold, eventLock, orders, orderLock, tickets, poolInUse, otherInUse>>

\* BEGIN; SELECT * FROM orders WHERE stripe_payment_intent_id = $1 FOR
\* UPDATE finds no row: ROLLBACK, return.
SucceededOrderNotFound(p) ==
  /\ pc[p] = "ps_lock"
  /\ ~OrderExists(loc[p].ref)
  /\ poolInUse' = poolInUse - 1
  /\ UNCHANGED otherInUse
  /\ Acknowledge(p, FALSE)
  /\ UNCHANGED <<tickets_sold, eventLock, orders, orderLock, tickets, venueVars>>

\* The SELECT ... FOR UPDATE returns the order row, locked.
SucceededLock(p) ==
  /\ pc[p] = "ps_lock"
  /\ OrderExists(loc[p].ref)
  /\ orderLock[loc[p].ref] = NoProc
  /\ orderLock' = [orderLock EXCEPT ![loc[p].ref] = p]
  /\ loc' = [loc EXCEPT ![p].qty = orders[loc[p].ref].quantity,
                        ![p].ostatus = orders[loc[p].ref].status,
                        ![p].oevent = orders[loc[p].ref].event]
  /\ pc' = [pc EXCEPT ![p] = "ps_update"]
  /\ UNCHANGED <<tickets_sold, eventLock, orders, tickets, poolInUse, otherInUse, acked, venueVars>>

\* if (order.status !== 'completed') UPDATE orders SET status = 'completed'
\* (inside the transaction).
SucceededUpdate(p) ==
  /\ pc[p] = "ps_update"
  /\ loc' = [loc EXCEPT ![p].txstatus =
       IF loc[p].ostatus # "completed" THEN "completed" ELSE "none"]
  /\ pc' = [pc EXCEPT ![p] = "ps_count"]
  /\ UNCHANGED <<tickets_sold, eventLock, orders, orderLock, tickets, poolInUse, otherInUse, acked, venueVars>>

\* The row of orders after COMMIT of the handler's transaction.
CommitOrder(p) ==
  IF loc[p].txstatus = "none" THEN orders
  ELSE [orders EXCEPT ![loc[p].ref].status = loc[p].txstatus]

\* The duplicate check passing over an order that has a single ticket.
TicketsExistMoreThanOne(count) == count > 1

\* existingTicketCount > 0
TicketsExist(count) == count > 0

\* SELECT COUNT(*) FROM tickets WHERE order_id = $1, then either COMMIT and
\* return (tickets exist) or go on to create the tickets.
SucceededCount(p) ==
  /\ pc[p] = "ps_count"
  /\ LET count == Len(tickets[loc[p].ref]) IN
     IF TicketsExist(count)
       THEN /\ orders' = CommitOrder(p)
            /\ orderLock' = [orderLock EXCEPT ![loc[p].ref] = NoProc]
            /\ poolInUse' = poolInUse - 1
            /\ Acknowledge(p, FALSE)
     ELSE IF loc[p].oevent \in {"local", "external"}
       THEN /\ pc' = [pc EXCEPT ![p] = "ps_insert"]
            /\ loc' = [loc EXCEPT ![p].cnt = count]
            /\ UNCHANGED <<orders, orderLock, poolInUse, acked>>
       \* neither event_id nor external_event_id: ROLLBACK, return
       ELSE /\ orderLock' = [orderLock EXCEPT ![loc[p].ref] = NoProc]
            /\ poolInUse' = poolInUse - 1
            /\ Acknowledge(p, FALSE)
            /\ UNCHANGED orders
  /\ UNCHANGED <<tickets_sold, eventLock, tickets, otherInUse, venueVars>>

\* createTickets / createTicketsForExternalEvent, one turn of the loop:
\* db.query(INSERT INTO tickets ...) on a connection of the pool, committed
\* at once.
SucceededInsertTicket(p) ==
  /\ pc[p] = "ps_insert"
  /\ loc[p].i < loc[p].qty
  /\ PoolHasFree
  /\ tickets' = [tickets EXCEPT ![loc[p].ref] = Append(@, NewTicket(loc[p].oevent))]
  /\ loc' = [loc EXCEPT ![p].i = @ + 1]
  /\ UNCHANGED <<tickets_sold, eventLock, orders, orderLock, poolInUse, otherInUse, pc, acked, venueVars>>

\* The pool has no connection for the INSERT: db.query rejects, the catch
\* of the transaction runs ROLLBACK and rethrows, the client is released and
\* the outer catch logs the error.
SucceededInsertTimeout(p) ==
  /\ pc[p] = "ps_insert"
  /\ loc[p].i < loc[p].qty
  /\ ~PoolHasFree
  /\ orderLock' = [orderLock EXCEPT ![loc[p].ref] = NoProc]
  /\ poolInUse' = poolInUse - 1
  /\ UNCHANGED otherInUse
  /\ Acknowledge(p, TRUE)
  /\ UNCHANGED <<tickets_sold, eventLock, orders, tickets, venueVars>>

\* createTickets returned: COMMIT, client.release().
SucceededCommit(p) ==
  /\ pc[p] = "ps_insert"
  /\ loc[p].i >= loc[p].qty
  /\ orders' = CommitOrder(p)
  /\ orderLock' = [orderLock EXCEPT ![loc[p].ref] = NoProc]
  /\ poolInUse' = poolInUse - 1
  /\ UNCHANGED otherInUse
  /\ Acknowledge(p, FALSE)
  /\ UNCHANGED <<tickets_sold, eventLock, tickets, venueVars>>

handlePaymentSucceeded(p) ==
  \/ SucceededConnect(p)
  \/ SucceededConnectTimeout(p)
  \/ SucceededOrderNotFound(p)
  \/ SucceededLock(p)
  \/ SucceededUpdate(p)
  \/ SucceededCount(p)
  \/ SucceededInsertTicket(p)
  \/ SucceededInsertTimeout(p)
  \/ SucceededCommit(p)

\* --- handlePaymentFailed
\* updateOrderStatus: db.query takes a connection of the pool.
FailedConnect(p) ==
  /\ pc[p] = "pf_connect"
  /\ PoolHasFree
  /\ poolInUse' = poolInUse + 1
  /\ UNCHANGED otherInUse
  /\ pc' = [pc EXCEPT ![p] = "pf_update"]
  /\ UNCHANGED <<tickets_sold, eventLock, orders, orderLock, tickets, loc, acked, venueVars>>

FailedConnectTimeout(p) ==
  /\ pc[p] = "pf_connect"
  /\ ~PoolHasFree
  /\ Acknowledge(p, TRUE)
  /\ UNCHANGED <<tickets_sold, eventLock, orders, orderLock, tickets, poolInUse, otherInUse>>

\* UPDATE orders SET status = $1 ... WHERE stripe_payment_intent_id = $3:
\* the rows of orders after the statement.
updateOrderStatus(ref, status) ==
  IF OrderExists(ref) THEN [orders EXCEPT ![ref].status = status] ELSE orders

\* The failure handler giving the capacity of the order back to the event.
FailedUpdateReleasing(p) ==
  /\ pc[p] = "pf_update"
  /\ OrderExists(loc[p].ref) => orderLock[loc[p].ref] = NoProc
  /\ orders' = updateOrderStatus(loc[p].ref, "failed")
  /\ tickets_sold' = IF OrderExists(loc[p].ref)
                       THEN tickets_sold - orders[loc[p].ref].quantity
                       ELSE tickets_sold
  /\ poolInUse' = poolInUse - 1
  /\ UNCHANGED otherInUse
  /\ Acknowledge(p, FALSE)
  /\ UNCHANGED <<eventLock, orderLock, tickets, venueVars>>

\* The UPDATE runs once no transaction holds the row lock of the order.
FailedUpdate(p) ==
  /\ pc[p] = "pf_update"
  /\ OrderExists(loc[p].ref) => orderLock[loc[p].ref] = NoProc
  /\ orders' = updateOrderStatus(loc[p].ref, "failed")
  /\ poolInUse' = poolInUse - 1
  /\ UNCHANGED otherInUse
  /\ Acknowledge(p, FALSE)
  /\ UNCHANGED <<tickets_sold, eventLock, orderLock, tickets, venueVars>>

handlePaymentFailed(p) ==
  \/ FailedConnect(p)
  \/ FailedConnectTimeout(p)
  \/ FailedUpdate(p)

\* --- handlePaymentRequiresAction: SELECT id FROM orders, logged only.
RequiresActionQuery(p) ==
  /\ pc[p] = "ra_query"
  /\ Acknowledge(p, ~PoolHasFree)
  /\ UNCHANGED <<tickets_sold, eventLock, orders, orderLock, tickets, poolInUse, otherInUse>>

\* --- handleAccountUpdated: touches the users table only.
AccountUpdated(p) ==
  /\ pc[p] = "au_done"
  /\ Acknowledge(p, FALSE)
  /\ UNCHANGED <<tickets_sold, eventLock, orders, orderLock, tickets, poolInUse, otherInUse>>

handleWebhookEvent(p) ==
  \/ handlePaymentSucceeded(p)
  \/ handlePaymentFailed(p)
  \/ RequiresActionQuery(p)
  \/ AccountUpdated(p)

Step(p) ==
  \/ Reserve(p)
  \/ StartWebhook(p)
  \/ handleWebhookEvent(p)
  \/ Return(p)

Next ==
  \/ \E p \in Procs : Step(p)
  \/ OtherQueryBegin
  \/ OtherQueryEnd

Spec == Init /\ [][Next]_vars

\* The requests are handled one after another: a handler takes a step only
\* while no other request is in flight, and no other route uses the pool.
Quiet(p) == \A q \in Procs \ {p} : pc[q] = "idle"

NextSeq == \E p \in Procs : otherInUse = 0 /\ Quiet(p) /\ Step(p)

SpecSeq == Init /\ [][NextSeq]_vars

\* --------------------------------------- POST /reservation-payments/intent
\* The route that sells tickets of an external (Firestore) event. The
\* request passed the check of quantity (1..10); the payment intent was
\* created at the processor; no order has its id yet.
ExternalPcs == {"er_order", "er_count", "er_tickets"}

StartExternalReserve(p) ==
  /\ pc[p] = "idle"
  /\ Len(orders) + Cardinality({q \in Procs : pc[q] \in ExternalPcs}) < MaxOrders
  /\ \E q \in Quantities :
       loc' = [loc EXCEPT ![p] = [NoLocals EXCEPT !.op = "reserve.external", !.qty = q]]
  /\ pc' = [pc EXCEPT ![p] = "er_order"]
  /\ UNCHANGED <<tickets_sold, eventLock, orders, orderLock, tickets, poolInUse, otherInUse, acked, venueVars>>

\* db.query(INSERT INTO orders (..., external_event_id, ..., status) VALUES
\* (..., 'pending', ...)): committed at once.
ExternalInsertOrder(p) ==
  /\ pc[p] = "er_order"
  /\ PoolHasFree
  /\ orders' = Append(orders, [NewOrder(loc[p].qty) EXCEPT !.event = "external"])
  /\ loc' = [loc EXCEPT ![p].ref = Len(orders) + 1]
  /\ pc' = [pc EXCEPT ![p] = "er_count"]
  /\ UNCHANGED <<tickets_sold, eventLock, orderLock, tickets, poolInUse, otherInUse, acked, venueVars>>

\* SELECT COUNT(*) FROM tickets WHERE order_id = $1: tickets are created
\* when there is none.
ExternalCount(p) ==
  /\ pc[p] = "er_count"
  /\ PoolHasFree
  /\ IF TicketsExist(Len(tickets[loc[p].ref]))
       THEN Respond(p, 200, FALSE)
       ELSE /\ pc' = [pc EXCEPT ![p] = "er_tickets"]
            /\ UNCHANGED <<loc, acked, venueVars>>
  /\ UNCHANGED <<tickets_sold, eventLock, orders, orderLock, tickets, poolInUse, otherInUse>>

\* One of the quantity INSERT INTO tickets (..., external_event_id, ...,
\* 'valid') that the route runs through db.query, each committed at once.
ExternalInsertTicket(p) ==
  /\ pc[p] = "er_tickets"
  /\ loc[p].i < loc[p].qty
  /\ PoolHasFree
  /\ tickets' = [tickets EXCEPT ![loc[p].ref] = Append(@, NewTicket("external"))]
  /\ loc' = [loc EXCEPT ![p].i = @ + 1]
  /\ UNCHANGED <<tickets_sold, eventLock, orders, orderLock, poolInUse, otherInUse, pc, acked, venueVars>>

\* A db.query of the route finds no free connection: the catch of the route
\* answers 500; what was inserted before stays.
ExternalQueryTimeout(p) ==
  /\ pc[p] \in ExternalPcs
  /\ pc[p] = "er_tickets" => loc[p].i < loc[p].qty
  /\ ~PoolHasFree
  /\ Respond(p, 500, TRUE)
  /\ UNCHANGED <<tickets_sold, eventLock, orders, orderLock, tickets, poolInUse, otherInUse>>

\* await Promise.all(ticketCreationPromises) resolved: res.json with the
\* client secret and order_id.
ExternalRespond(p) ==
  /\ pc[p] = "er_tickets"
  /\ loc[p].i >= loc[p].qty
  /\ Respond(p, 200, FALSE)
  /\ UNCHANGED <<tickets_sold, eventLock, orders, orderLock, tickets, poolInUse, otherInUse>>

ExternalReserve(p) ==
  \/ StartExternalReserve(p)
  \/ ExternalInsertOrder(p)
  \/ ExternalCount(p)
  \/ ExternalInsertTicket(p)
  \/ ExternalQueryTimeout(p)
  \/ ExternalRespond(p)

\* The processor delivers a signed payment_intent.succeeded event.
DeliverSucceeded(p) ==
  /\ StartWebhook(p)
  /\ pc'[p] = "ps_connect"

\* The ledger of the orders of external events: the reservations of
\* POST /reservation-payments/intent and their confirmations.
NextExt ==
  \/ \E p \in Procs :
       \/ ExternalReserve(p)
       \/ DeliverSucceeded(p)
       \/ handlePaymentSucceeded(p)
       \/ Return(p)
  \/ OtherQueryBegin
  \/ OtherQueryEnd

SpecExt == Init /\ [][NextExt]_vars

\* ------------------------------------- redelivery by the payment processor
\* A paid order waiting for its confirmation event: the reservation of its
\* quantity committed, no ticket yet.
InitLive ==
  /\ \E q \in Quantities :
       /\ tickets_sold = q
       /\ orders = <<NewOrder(q)>>
  /\ eventLock = NoProc
  /\ orderLock = [o \in OrderIds |-> NoProc]
  /\ tickets = [o \in OrderIds |-> << >>]
  /\ poolInUse = 0
  /\ otherInUse = 0
  /\ now = 0
  /\ otpStore = NoOtp
  /\ otpHist = NoHist
  /\ job = NoJob
  /\ acked = [o \in OrderIds |-> FALSE]
  /\ pc = [p \in Procs |-> "idle"]
  /\ loc = [p \in Procs |-> NoLocals]

\* The processor delivers the payment_intent.succeeded event of an order,
\* signed, and delivers it again after an attempt was answered as long as
\* no attempt was answered with a 2xx status.
Deliver(p) ==
  /\ \E o \in 1..Len(orders) :
       /\ ~acked[o]
       /\ \A q \in Procs : loc[q].ref = o => pc[q] = "idle"
       /\ loc' = [loc EXCEPT ![p] =
            [NoLocals EXCEPT !.op = "payment_intent.succeeded", !.ref = o,
                             !.sig = "valid"]]
  /\ StartWebhook(p)
  /\ pc'[p] = "ps_connect"

\* The steps of handlePaymentSucceeded that are not an error.
SucceededProgress(p) ==
  \/ SucceededConnect(p)
  \/ SucceededLock(p)
  \/ SucceededUpdate(p)
  \/ SucceededCount(p)
  \/ SucceededInsertTicket(p)
  \/ SucceededCommit(p)

\* The steps of handlePaymentSucceeded that are a processing error.
ProcessingError ==
  \E p \in Procs : SucceededConnectTimeout(p) \/ SucceededInsertTimeout(p)

NextLive ==
  \/ \E p \in Procs :
       \/ Deliver(p)
       \/ SucceededProgress(p)
       \/ SucceededConnectTimeout(p)
       \/ SucceededInsertTimeout(p)
       \/ Return(p)
  \/ OtherQueryBegin
  \/ OtherQueryEnd

\* The event loop runs every handler that can take a step, the pool gets
\* its connections back, the processor keeps delivering, and the processing
\* errors eventually stop.
FairLive ==
  /\ \A p \in Procs : SF_vars(Deliver(p) \/ SucceededProgress(p) \/ Return(p))
  /\ WF_vars(OtherQueryEnd)
  /\ <>[][~ProcessingError]_vars

SpecLive == InitLive /\ [][NextLive]_vars /\ FairLive

\* ------------------------------------------------------ POST /tickets/scan
\* The users that can be signed in: the host of the event and somebody else;
\* "nobody" is a signed-in identity with no row in users.
Scanners == {"host", "guest", "nobody"}

\* event.host_id of the event of the fixture.
EventHost == "host"

\* The qr_token of the i-th ticket of order o is <<o, i>>; <<0, 0>> is a
\* token no ticket has.
Tokens == {<<0, 0>>} \cup {<<o, i>> : o \in OrderIds, i \in 1..MaxQty}

\* findTicketByQRToken: SELECT ... FROM tickets t JOIN events e ON
\* t.event_id = e.id WHERE t.qr_token = $1 returns a row.
TicketFound(token) ==
  /\ token[1] \in OrderIds
  /\ token[2] \in 1..Len(tickets[token[1]])
  /\ tickets[token[1]][token[2]].event = "local"

\* oneHourBeforeStart and thirtyMinutesAfterStart of the event.
OneHourBeforeStart == StartsAt - EntryOpensMinutesBefore
ThirtyMinutesAfterStart == StartsAt + EntryClosesMinutesAfter

\* The instants the clock of the model passes through: both ends of the
\* entry window, the minute before it, the minute after it and the start.
Instants ==
  {OneHourBeforeStart - 1, OneHourBeforeStart, StartsAt,
   ThirtyMinutesAfterStart, ThirtyMinutesAfterStart + 1}

Tick ==
  /\ \E t \in Instants :
       /\ t > now
       /\ \A u \in Instants : u > now => t <= u
       /\ now' = t
  /\ UNCHANGED <<tickets_sold, eventLock, orders, orderLock, tickets, poolInUse,
                 otherInUse, acked, pc, loc, otpVars>>

\* The request ends with an HTTP response; of its locals the model keeps
\* the request, the ticket status it read and the time it read (t).
ScanRespond(p, code, text, t) ==
  /\ pc' = [pc EXCEPT ![p] = "done"]
  /\ loc' = [loc EXCEPT ![p] =
       [NoLocals EXCEPT !.op = loc[p].op, !.token = loc[p].token,
                        !.scanner = loc[p].scanner, !.tstatus = loc[p].tstatus,
                        !.status = code, !.msg = text, !.at = t]]

\* requireAuth let the request in: the caller is signed in as scanner.
StartScan(p) ==
  /\ pc[p] = "idle"
  /\ \E token \in Tokens, scanner \in Scanners :
       loc' = [loc EXCEPT ![p] =
         [NoLocals EXCEPT !.op = "scan", !.token = token, !.scanner = scanner]]
  /\ pc' = [pc EXCEPT ![p] = "sc_find"]
  /\ UNCHANGED <<tickets_sold, eventLock, orders, orderLock, tickets, poolInUse,
                 otherInUse, acked, now, otpVars>>

\* const ticketWithEvent = await findTicketByQRToken(token)
ScanFind(p) ==
  /\ pc[p] = "sc_find"
  /\ IF TicketFound(loc[p].token)
       THEN /\ loc' = [loc EXCEPT ![p].tstatus =
                   tickets[loc[p].token[1]][loc[p].token[2]].status]
            /\ pc' = [pc EXCEPT ![p] = "sc_check"]
       ELSE ScanRespond(p, 404, "Ticket not found", 0)
  /\ UNCHANGED <<tickets_sold, eventLock, orders, orderLock, tickets, poolInUse,
                 otherInUse, acked, now, otpVars>>

\* The status check letting a refunded ticket through.
TicketNotValidOnlyCancelled(status) == status = "cancelled"

\* ticketWithEvent.status !== 'valid'
TicketNotValid(status) == status # "valid"

\* The entry window opening a minute late: its first instant is refused.
EntryNotYetOpenAtOpening(currentTime) == currentTime <= OneHourBeforeStart

\* currentTime < oneHourBeforeStart
EntryNotYetOpen(currentTime) == currentTime < OneHourBeforeStart

\* currentTime > thirtyMinutesAfterStart
EntryClosed(currentTime) == currentTime > ThirtyMinutesAfterStart

\* The host check passing any signed-in user that has a row in users.
ScannerIsNotHostUnlessKnown(scanner) == scanner = "nobody"

\* !scannerUser || scannerUser.id !== event.host_id
ScannerIsNotHost(scanner) == scanner = "nobody" \/ scanner # EventHost

\* findEventById and findUserByEmail, then the checks of the scanner, of the
\* ticket status read by ScanFind and of the entry window at the current time.
ScanCheck(p) ==
  /\ pc[p] = "sc_check"
  /\ IF ScannerIsNotHost(loc[p].scanner)
       THEN ScanRespond(p, 403, "Only the event host can scan tickets", now)
     ELSE IF loc[p].tstatus = "used"
       THEN ScanRespond(p, 400, "Ticket already used", now)
     ELSE IF TicketNotValid(loc[p].tstatus)
       THEN ScanRespond(p, 400, "Ticket is " \o loc[p].tstatus, now)
     ELSE IF EntryNotYetOpen(now)
       THEN ScanRespond(p, 400, "Event entry not yet open", now)
     ELSE IF EntryClosed(now)
       THEN ScanRespond(p, 400, "Event entry window has closed", now)
     ELSE /\ pc' = [pc EXCEPT ![p] = "sc_update"]
          /\ loc' = [loc EXCEPT ![p].at = now]
  /\ UNCHANGED <<tickets_sold, eventLock, orders, orderLock, tickets, poolInUse,
                 otherInUse, acked, now, otpVars>>

\* UPDATE tickets SET status = $1, scanned_at = CASE WHEN $1 = 'used' THEN
\* CURRENT_TIMESTAMP ELSE scanned_at END, scanned_by_user_id = $2 WHERE
\* qr_token = $3: the row after the statement.
updateTicketStatus(row, status, scannedByUserId) ==
  [row EXCEPT !.status = status,
              !.scanned_at = IF status = "used" THEN now ELSE @,
              !.scanned_by = scannedByUserId]

\* const updatedTicket = await updateTicketStatus(token, 'used', scannerUser.id)
ScanUpdate(p) ==
  /\ pc[p] = "sc_update"
  /\ LET o == loc[p].token[1]
         i == loc[p].token[2]
     IN tickets' = [tickets EXCEPT ![o][i] =
                      updateTicketStatus(@, "used", loc[p].scanner)]
  /\ ScanRespond(p, 200, "Ticket successfully scanned", loc[p].at)
  /\ UNCHANGED <<tickets_sold, eventLock, orders, orderLock, poolInUse,
                 otherInUse, acked, now, otpVars>>

Scan(p) ==
  \/ StartScan(p)
  \/ ScanFind(p)
  \/ ScanCheck(p)
  \/ ScanUpdate(p)

\* --------------------------------------------------- GET /tickets/verify
\* The route is public: no scanner.
StartVerify(p) ==
  /\ pc[p] = "idle"
  /\ \E token \in Tokens :
       loc' = [loc EXCEPT ![p] = [NoLocals EXCEPT !.op = "verify", !.token = token]]
  /\ pc' = [pc EXCEPT ![p] = "vf_find"]
  /\ UNCHANGED <<tickets_sold, eventLock, orders, orderLock, tickets, poolInUse,
                 otherInUse, acked, now, otpVars>>

\* isEventAccessible
EventAccessible(currentTime) ==
  currentTime >= OneHourBeforeStart /\ currentTime <= ThirtyMinutesAfterStart

\* The body of the answer of verify for a ticket of the given status.
VerifyView(status, currentTime) ==
  IF status = "used" THEN "Ticket already used"
  ELSE IF status \in {"cancelled", "refunded"} THEN "Ticket " \o status
  ELSE IF EventAccessible(currentTime) THEN "valid, event accessible"
  ELSE "valid, event not accessible"

\* The answer of verify that also consumes a valid ticket.
VerifyAnswerConsuming(p) ==
  /\ pc[p] = "vf_find"
  /\ IF TicketFound(loc[p].token)
       THEN LET o == loc[p].token[1]
                i == loc[p].token[2]
            IN /\ tickets' = [tickets EXCEPT ![o][i].status =
                                IF @ = "valid" THEN "used" ELSE @]
               /\ ScanRespond(p, 200, VerifyView(tickets[o][i].status, now), now)
       ELSE /\ ScanRespond(p, 404, "Ticket not found", 0)
            /\ UNCHANGED tickets
  /\ UNCHANGED <<tickets_sold, eventLock, orders, orderLock, poolInUse,
                 otherInUse, acked, now, otpVars>>

\* const ticketWithEvent = await findTicketByQRToken(token) and the answer
\* built from the row.
VerifyAnswer(p) ==
  /\ pc[p] = "vf_find"
  /\ IF TicketFound(loc[p].token)
       THEN ScanRespond(p, 200,
              VerifyView(tickets[loc[p].token[1]][loc[p].token[2]].status, now), now)
       ELSE ScanRespond(p, 404, "Ticket not found", 0)
  /\ UNCHANGED <<tickets_sold, eventLock, orders, orderLock, tickets, poolInUse,
                 otherInUse, acked, now, otpVars>>

Verify(p) ==
  \/ StartVerify(p)
  \/ VerifyAnswer(p)

\* Statuses a ticket can have been given before the doors open.
IssuedStatuses == {"valid", "cancelled", "refunded"}

\* At the venue: order 1, of the local event, and order 2, of an external
\* event, are paid and their tickets issued (createTickets,
\* createTicketsForExternalEvent or POST /reservation-payments/intent); the
\* first ticket of order 1 may have been cancelled or refunded since; the
\* clock stands a minute before the entry window opens.
InitScan ==
  /\ tickets_sold = MaxQty
  /\ eventLock = NoProc
  /\ orders = <<[NewOrder(MaxQty) EXCEPT !.status = "completed"],
                [NewOrder(QuantityFloor) EXCEPT !.status = "completed",
                                                !.event = "external"]>>
  /\ orderLock = [o \in OrderIds |-> NoProc]
  /\ \E first \in IssuedStatuses :
       tickets = [o \in OrderIds |->
         IF o = 1 THEN [i \in 1..MaxQty |->
                          IF i = 1 THEN [NewTicket("local") EXCEPT !.status = first]
                          ELSE NewTicket("local")]
         ELSE IF o = 2 THEN <<NewTicket("external")>>
         ELSE << >>]
  /\ poolInUse = 0
  /\ otherInUse = 0
  /\ acked = [o \in OrderIds |-> o \in {1, 2}]
  /\ now = OneHourBeforeStart - 1
  /\ otpStore = NoOtp
  /\ otpHist = NoHist
  /\ job = NoJob
  /\ pc = [p \in Procs |-> "idle"]
  /\ loc = [p \in Procs |-> NoLocals]

NextScan ==
  \/ \E p \in Procs : Scan(p) \/ Verify(p) \/ Return(p)
  \/ Tick

SpecScan == InitScan /\ [][NextScan]_vars

\* ------------------------------------------------------------ OTPService
\* expiresAt - Date.now() at the time of generateOTP, in milliseconds.
ExpiryMillis == DEFAULT_EXPIRY_MINUTES * SecondsPerMinute * MillisPerSecond

\* generateSecureOTP: a string of OTP_LENGTH digits; two of them.
Codes == {[i \in 1..OTP_LENGTH |-> IF i = OTP_LENGTH THEN d ELSE 0] : d \in 1..2}

\* What a caller can send as otp: OTP_LENGTH digits or fewer.
Candidates == Codes \cup {<<0, 0, 0, 1>>}

\* constantTimeCompare: equal lengths and no position that differs.
constantTimeCompare(a, b) ==
  IF Len(a) # Len(b) THEN FALSE
  ELSE \A i \in 1..Len(a) : a[i] = b[i]

\* redisClient.get: the value of the key unless Redis has expired it.
Stored == IF otpStore # NoOtp /\ now < otpStore.ttlEnd THEN otpStore ELSE NoOtp

\* The instants the clock passes through: the issue, half a second before
\* the expiry of a passcode issued at 0, the expiry, half a second after.
OtpInstants == {0, ExpiryMillis - HalfSecond, ExpiryMillis, ExpiryMillis + HalfSecond}

OtpTick ==
  /\ \E t \in OtpInstants :
       /\ t > now
       /\ \A u \in OtpInstants : u > now => t <= u
       /\ now' = t
  /\ UNCHANGED <<tickets_sold, eventLock, orders, orderLock, tickets, poolInUse,
                 otherInUse, acked, pc, loc, otpVars>>

\* generateOTP: the code, expiresAt, attempts 0, stored with EX
\* expirySeconds.
generateOTP(p) ==
  /\ pc[p] = "idle"
  /\ otpHist.issued < MaxIssues
  /\ \E code \in Codes :
       LET expiresAt == now + ExpiryMillis
           expirySeconds == (expiresAt - now) \div MillisPerSecond
       IN otpStore' = [code |-> code, expiresAt |-> expiresAt, attempts |-> 0,
                       ttlEnd |-> now + expirySeconds * MillisPerSecond]
  /\ otpHist' = [issued |-> otpHist.issued + 1, wrong |-> 0, trues |-> 0]
  /\ pc' = [pc EXCEPT ![p] = "done"]
  /\ loc' = [loc EXCEPT ![p] = [NoLocals EXCEPT !.op = "otp.issue", !.status = 200]]
  /\ UNCHANGED <<tickets_sold, eventLock, orders, orderLock, tickets, poolInUse,
                 otherInUse, acked, now, job>>

\* verifyOTP returns (result "true" or "false") or throws (result
\* "TooManyAttempts"); compared: it compared a wrong candidate with the
\* stored code. The history counts the calls on the passcode issued last.
OtpReturn(p, result, compared) ==
  /\ pc' = [pc EXCEPT ![p] = "done"]
  /\ loc' = [loc EXCEPT ![p] =
       [NoLocals EXCEPT !.op = "otp.verify", !.code = loc[p].code, !.msg = result]]
  /\ otpHist' =
       IF loc[p].gen # otpHist.issued THEN otpHist
       ELSE IF result = "true" THEN [otpHist EXCEPT !.trues = @ + 1]
       ELSE IF compared THEN [otpHist EXCEPT !.wrong = @ + 1]
       ELSE otpHist

\* Verify calls that have not returned.
VerifiesInFlight ==
  Cardinality({q \in Procs : pc[q] \in {"ov_get", "ov_del", "ov_set"}})

StartVerifyOTP(p) ==
  /\ pc[p] = "idle"
  /\ otpHist.wrong + otpHist.trues + VerifiesInFlight < MaxVerifies
  /\ \E inputCode \in Candidates :
       loc' = [loc EXCEPT ![p] =
         [NoLocals EXCEPT !.op = "otp.verify", !.code = inputCode,
                          !.gen = otpHist.issued]]
  /\ pc' = [pc EXCEPT ![p] = "ov_get"]
  /\ UNCHANGED <<tickets_sold, eventLock, orders, orderLock, tickets, poolInUse,
                 otherInUse, acked, now, otpVars>>

\* const storedData = await redisClient.get(redisKey) and the checks that
\* follow, up to the next await.
VerifyGet(p) ==
  /\ pc[p] = "ov_get"
  /\ LET otpData == Stored IN
     IF otpData = NoOtp
       THEN OtpReturn(p, "false", FALSE)
     ELSE IF now > otpData.expiresAt
       THEN /\ pc' = [pc EXCEPT ![p] = "ov_del"]
            /\ loc' = [loc EXCEPT ![p].msg = "false"]
            /\ UNCHANGED otpHist
     ELSE IF otpData.attempts >= MAX_ATTEMPTS
       THEN /\ pc' = [pc EXCEPT ![p] = "ov_del"]
            /\ loc' = [loc EXCEPT ![p].msg = "TooManyAttempts"]
            /\ UNCHANGED otpHist
     ELSE IF constantTimeCompare(loc[p].code, otpData.code)
       THEN /\ pc' = [pc EXCEPT ![p] = "ov_del"]
            /\ loc' = [loc EXCEPT ![p].msg = "true"]
            /\ UNCHANGED otpHist
     ELSE LET expirySeconds == (otpData.expiresAt - now) \div MillisPerSecond IN
          IF expirySeconds > 0
            THEN /\ pc' = [pc EXCEPT ![p] = "ov_set"]
                 /\ loc' = [loc EXCEPT ![p].rec =
                                 [otpData EXCEPT !.attempts = @ + 1],
                                         ![p].cnt = expirySeconds]
                 /\ UNCHANGED otpHist
            ELSE OtpReturn(p, "false", TRUE)
  /\ UNCHANGED <<tickets_sold, eventLock, orders, orderLock, tickets, poolInUse,
                 otherInUse, acked, now, otpStore, job>>

\* await redisClient.del(redisKey), then return or throw.
VerifyDel(p) ==
  /\ pc[p] = "ov_del"
  /\ otpStore' = NoOtp
  /\ OtpReturn(p, loc[p].msg, FALSE)
  /\ UNCHANGED <<tickets_sold, eventLock, orders, orderLock, tickets, poolInUse,
                 otherInUse, acked, now, job>>

\* await redisClient.set(redisKey, JSON.stringify(otpData), 'EX',
\* expirySeconds); return false.
VerifySet(p) ==
  /\ pc[p] = "ov_set"
  /\ otpStore' = [loc[p].rec EXCEPT !.ttlEnd = now + loc[p].cnt * MillisPerSecond]
  /\ OtpReturn(p, "false", TRUE)
  /\ UNCHANGED <<tickets_sold, eventLock, orders, orderLock, tickets, poolInUse,
                 otherInUse, acked, now, job>>

verifyOTP(p) ==
  \/ StartVerifyOTP(p)
  \/ VerifyGet(p)
  \/ VerifyDel(p)
  \/ VerifySet(p)

NextOtp ==
  \/ \E p \in Procs : generateOTP(p) \/ verifyOTP(p) \/ Return(p)
  \/ OtpTick

SpecOtp == Init /\ [][NextOtp]_vars

\* ------------------------------------------------------------ EventSyncJob
\* The positions of a run between its awaits.
SyncPcs == {"sy_fetch", "sy_save"}

\* Activations of runSync that have set the flag and not yet returned.
RunsInProgress == Cardinality({p \in Procs : pc[p] \in SyncPcs})

\* The catch and finally of runSync leaving the flag set.
FailedKeepingFlag(j) == [j EXCEPT !.errorCount = @ + 1]

\* catch: stats.errorCount++; finally: isRunning = false.
Failed(j) == [j EXCEPT !.errorCount = @ + 1, !.isRunning = FALSE]

\* stats.successCount++, totalEventsProcessed += events.length; finally:
\* isRunning = false.
Succeeded(j, n) ==
  [j EXCEPT !.successCount = @ + 1, !.totalEventsProcessed = @ + n,
            !.isRunning = FALSE]

\* runSync up to its first await: the check of isRunning and, if the job is
\* not running, the flag set.
runSyncEnter(p, caller) ==
  IF job.isRunning
    THEN /\ pc' = [pc EXCEPT ![p] = "done"]
         /\ loc' = [loc EXCEPT ![p] =
              [NoLocals EXCEPT !.op = caller, !.status = 200, !.err = TRUE,
                               !.msg = "Job already running"]]
         /\ UNCHANGED job
    ELSE /\ job.successCount + job.errorCount < MaxRuns
         /\ job' = [job EXCEPT !.isRunning = TRUE]
         /\ pc' = [pc EXCEPT ![p] = "sy_fetch"]
         /\ loc' = [loc EXCEPT ![p] = [NoLocals EXCEPT !.op = caller]]

\* cron.schedule(cronExpression, () => { this.runSync(); })
CronFire(p) ==
  /\ pc[p] = "idle"
  /\ runSyncEnter(p, "sync.cron")
  /\ UNCHANGED <<tickets_sold, eventLock, orders, orderLock, tickets, poolInUse,
                 otherInUse, acked, now, otpStore, otpHist>>

\* runNow: throws 409 if the job is running, else runSync.
RunNow(p) ==
  /\ pc[p] = "idle"
  /\ IF job.isRunning
       THEN /\ pc' = [pc EXCEPT ![p] = "done"]
            /\ loc' = [loc EXCEPT ![p] =
                 [NoLocals EXCEPT !.op = "sync.runNow", !.status = 409, !.err = TRUE,
                                  !.msg = "Job Already Running"]]
            /\ UNCHANGED job
       ELSE runSyncEnter(p, "sync.runNow")
  /\ UNCHANGED <<tickets_sold, eventLock, orders, orderLock, tickets, poolInUse,
                 otherInUse, acked, now, otpStore, otpHist>>

\* How many events await eventsService.fetchGoogleEvents() can return when
\* it does not throw.
FetchCounts == 0..MaxEvents

\* const events = await eventsService.fetchGoogleEvents() and what follows
\* up to the next await or the return.
SyncFetch(p) ==
  /\ pc[p] = "sy_fetch"
  /\ \E throws \in BOOLEAN, outcome \in FetchCounts :
       LET fetched == [job EXCEPT !.fetches = @ + 1] IN
       IF throws
         THEN /\ job' = Failed(fetched)
              /\ pc' = [pc EXCEPT ![p] = "done"]
              /\ loc' = [loc EXCEPT ![p].status = 200, ![p].err = TRUE,
                                    ![p].msg = "fetch failed"]
       ELSE IF outcome = 0
         THEN /\ job' = Succeeded(fetched, 0)
              /\ pc' = [pc EXCEPT ![p] = "done"]
              /\ loc' = [loc EXCEPT ![p].status = 200]
       ELSE /\ job' = fetched
            /\ pc' = [pc EXCEPT ![p] = "sy_save"]
            /\ loc' = [loc EXCEPT ![p].cnt = outcome]
  /\ UNCHANGED <<tickets_sold, eventLock, orders, orderLock, tickets, poolInUse,
                 otherInUse, acked, now, otpStore, otpHist>>

\* await eventsService.saveEventsBatch(events) and the rest of the run.
SyncSave(p) ==
  /\ pc[p] = "sy_save"
  /\ \E saved \in BOOLEAN :
       IF saved
         THEN /\ job' = Succeeded(job, loc[p].cnt)
              /\ loc' = [loc EXCEPT ![p].status = 200]
         ELSE /\ job' = Failed(job)
              /\ loc' = [loc EXCEPT ![p].status = 200, ![p].err = TRUE,
                                    ![p].msg = "save failed", ![p].cnt = 0]
  /\ pc' = [pc EXCEPT ![p] = "done"]
  /\ UNCHANGED <<tickets_sold, eventLock, orders, orderLock, tickets, poolInUse,
                 otherInUse, acked, now, otpStore, otpHist>>

runSync(p) ==
  \/ SyncFetch(p)
  \/ SyncSave(p)

NextSync == \E p \in Procs : CronFire(p) \/ RunNow(p) \/ runSync(p) \/ Return(p)

SpecSync == Init /\ [][NextSync]_vars

\* ------------------------------------------------------------------ claims
RECURSIVE SumQuantity(_, _)
\* Sum of the quantities of the first n orders whose status is in statuses.
SumQuantity(n, statuses) ==
  IF n = 0 THEN 0
  ELSE SumQuantity(n - 1, statuses)
       + (IF orders[n].status \in statuses THEN orders[n].quantity ELSE 0)

CompletedQuantity == SumQuantity(Len(orders), {"completed"})

\* C1: whatever the interleaving of reservations and payment webhooks, the
\* quantities of the orders of the event that are completed never add up to
\* more than the capacity of the event.
C1_CompletedWithinCapacity == CompletedQuantity <= Capacity

\* C1 witness: the event is sold out by completed orders alone, while a
\* further reservation has been turned away.
C1_Witness ==
  /\ CompletedQuantity = Capacity
  /\ \E p \in Procs : pc[p] = "done" /\ loc[p].op = "reserve" /\ loc[p].status = 400

\* C2: tickets_sold of the event stays between 0 and its capacity in every
\* state, for every interleaving of reservations and webhook deliveries.
C2_TicketsSoldInRange == 0 <= tickets_sold /\ tickets_sold <= Capacity

\* C2 witness: tickets_sold has reached the capacity, one order of the event
\* has been completed and another one failed by webhooks.
C2_Witness ==
  /\ tickets_sold = Capacity
  /\ \E o \in 1..Len(orders) : orders[o].status = "completed"
  /\ \E o \in 1..Len(orders) : orders[o].status = "failed"

\* Where a handlePaymentSucceeded call stands between its first await and
\* its return.
SucceededPcs == {"ps_connect", "ps_lock", "ps_update", "ps_count", "ps_insert"}

IsSucceeded(p) == loc[p].op = "payment_intent.succeeded"

\* Orders created by POST /payments/intent (orders of the local event).
LocalOrders == {o \in 1..Len(orders) : orders[o].event = "local"}

NoDeliveryInFlight(o) ==
  \A p \in Procs : ~(pc[p] \in SucceededPcs /\ loc[p].ref = o)

\* C4: when payment_intent.succeeded events of one order are handled
\* concurrently, the order never has more than order.quantity tickets, and
\* once the deliveries are over and the order is completed it has exactly
\* order.quantity tickets.
C4_ConcurrentDeliveries ==
  \A o \in LocalOrders :
    /\ Len(tickets[o]) <= orders[o].quantity
    /\ (orders[o].status = "completed" /\ NoDeliveryInFlight(o))
         => Len(tickets[o]) = orders[o].quantity

\* C5: no two scans of one ticket succeed: of the scans of a token that
\* have been answered, at most one was answered with success.
C5_AtMostOneScanSucceeds ==
  \A p, q \in Procs :
    (/\ p # q
     /\ pc[p] = "done" /\ loc[p].op = "scan" /\ loc[p].status = 200
     /\ pc[q] = "done" /\ loc[q].op = "scan")
    => ~(loc[q].token = loc[p].token /\ loc[q].status = 200)

\* A scan or a verify of process p is answered by this step.
Answered(p, op) == pc[p] # "done" /\ pc'[p] = "done" /\ loc'[p].op = op

\* C11: a scan of a valid ticket by the event host that reads the clock at t
\* is refused as too early when t < S - 1h, succeeds when S - 1h <= t and
\* t <= S + 30m, and is refused as too late when t > S + 30m; a refused scan
\* changes no ticket.
C11_EntryWindow ==
  [][\A p \in Procs :
       (/\ Answered(p, "scan")
        /\ loc'[p].scanner = EventHost
        /\ loc'[p].tstatus = "valid")
       => LET t == loc'[p].at IN
          /\ t < StartsAt - EntryOpensMinutesBefore
               => /\ loc'[p].status = 400
                  /\ loc'[p].msg = "Event entry not yet open"
                  /\ tickets' = tickets
          /\ (t >= StartsAt - EntryOpensMinutesBefore
               /\ t <= StartsAt + EntryClosesMinutesAfter)
               => /\ loc'[p].status = 200
                  /\ tickets'[loc[p].token[1]][loc[p].token[2]].status = "used"
          /\ t > StartsAt + EntryClosesMinutesAfter
               => /\ loc'[p].status = 400
                  /\ loc'[p].msg = "Event entry window has closed"
                  /\ tickets' = tickets]_vars

\* A scan by the host succeeded on the first instant of the entry window.
C11_Witness ==
  \E p \in Procs :
    /\ pc[p] = "done" /\ loc[p].op = "scan" /\ loc[p].status = 200
    /\ loc[p].at = StartsAt - EntryOpensMinutesBefore

\* Some ticket has the token.
TicketHasToken(token) ==
  token[1] \in OrderIds /\ token[2] \in 1..Len(tickets[token[1]])

\* C12: a scan is answered 404 when no ticket has the token; a scan by the
\* event host is answered "Ticket already used" when the status it read is
\* used and "Ticket is <status>" when it is cancelled or refunded; in each
\* of these cases no ticket changes.
C12_ScanRejections ==
  [][\A p \in Procs :
       Answered(p, "scan")
       => /\ ~TicketHasToken(loc[p].token)
               => /\ loc'[p].status = 404
                  /\ tickets' = tickets
          /\ (loc'[p].scanner = EventHost /\ loc'[p].tstatus = "used")
               => /\ loc'[p].status = 400
                  /\ loc'[p].msg = "Ticket already used"
                  /\ tickets' = tickets
          /\ (loc'[p].scanner = EventHost
               /\ loc'[p].tstatus \in {"cancelled", "refunded"})
               => /\ loc'[p].status = 400
                  /\ loc'[p].msg \in {"Ticket is cancelled", "Ticket is refunded"}
                  /\ tickets' = tickets]_vars

\* The host was told that a ticket is already used, and was refused a
\* refunded one.
C12_Witness ==
  /\ \E p \in Procs :
       pc[p] = "done" /\ loc[p].op = "scan" /\ loc[p].msg = "Ticket already used"
  /\ \E p \in Procs :
       pc[p] = "done" /\ loc[p].op = "scan" /\ loc[p].msg = "Ticket is refunded"

\* C13: no step of a verify request changes a ticket, an order or the
\* event.
C13_VerifyChangesNothing ==
  [][\A p \in Procs :
       (loc'[p].op = "verify" /\ pc'[p] # pc[p])
       => /\ tickets' = tickets
          /\ orders' = orders
          /\ tickets_sold' = tickets_sold]_vars

\* A verify was answered for a valid ticket inside the entry window.
C13_Witness ==
  \E p \in Procs :
    /\ pc[p] = "done" /\ loc[p].op = "verify"
    /\ loc[p].msg = "valid, event accessible"

\* C14: of the verify calls on one issued passcode, at most one returns
\* true.
C14_TrueAtMostOnce == otpHist.trues <= 1

\* C15: once MAX_ATTEMPTS verify calls on the issued passcode have failed,
\* a verify call that finds the record, unexpired, ends with
\* TooManyAttempts whatever its candidate.
C15_LockedOutAfterCeiling ==
  [][\A p \in Procs :
       (/\ pc[p] = "ov_get" /\ pc'[p] # "ov_get"
        /\ otpHist.wrong >= MAX_ATTEMPTS
        /\ Stored # NoOtp
        /\ now <= Stored.expiresAt)
       => loc'[p].msg = "TooManyAttempts"]_vars

\* Process p has an answer to a reservation it made.
ReserveAnswered(p) == pc[p] = "done" /\ loc[p].op = "reserve"

\* Every order made since p came in was made by p or by q: no other
\* reservation went through while the two were under way.
OnlyTheseTwoReserved(p, q) ==
  \A o \in (loc[p].orders0 + 1)..Len(orders) : o \in {loc[p].ref, loc[q].ref}

\* C16: two reservations that came in on the same state of the event, each
\* within the remaining capacity R and together beyond it, that met no
\* processing error and were the only two to reserve meanwhile: one is
\* answered 200 and the other 400, one order was added and tickets_sold grew
\* by the quantity of the one that succeeded.
C16_ExactlyOneReservationWins ==
  \A p, q \in Procs :
    (/\ p # q
     /\ ReserveAnswered(p) /\ ReserveAnswered(q)
     /\ ~loc[p].err /\ ~loc[q].err
     /\ loc[p].sold0 = loc[q].sold0 /\ loc[p].orders0 = loc[q].orders0
     /\ loc[p].qty <= Capacity - loc[p].sold0
     /\ loc[q].qty <= Capacity - loc[p].sold0
     /\ loc[p].qty + loc[q].qty > Capacity - loc[p].sold0
     /\ OnlyTheseTwoReserved(p, q))
    => /\ {loc[p].status, loc[q].status} = {200, 400}
       /\ Len(orders) = loc[p].orders0 + 1
       /\ tickets_sold = loc[p].sold0 +
            (IF loc[p].status = 200 THEN loc[p].qty ELSE loc[q].qty)

\* Two such reservations have been answered.
C16_Witness ==
  \E p, q \in Procs :
    /\ p # q
    /\ ReserveAnswered(p) /\ ReserveAnswered(q)
    /\ loc[p].sold0 = loc[q].sold0 /\ loc[p].orders0 = loc[q].orders0
    /\ loc[p].qty <= Capacity - loc[p].sold0
    /\ loc[q].qty <= Capacity - loc[p].sold0
    /\ loc[p].qty + loc[q].qty > Capacity - loc[p].sold0
    /\ ~loc[p].err /\ ~loc[q].err
    /\ OnlyTheseTwoReserved(p, q)
    /\ loc[p].status = 200 /\ loc[q].status = 400

\* C17: the step that answers a reservation with 400 (capacity exceeded)
\* adds no order and leaves tickets_sold as it was.
C17_RejectedReservationPersistsNothing ==
  [][\A p \in Procs :
       (pc[p] \in {"rv_lock", "rv_check", "rv_commit"} /\ pc'[p] = "done"
        /\ loc'[p].status = 400)
       => /\ tickets_sold + loc[p].qty > Capacity
          /\ orders' = orders
          /\ tickets_sold' = tickets_sold
          /\ tickets' = tickets]_vars

\* A reservation was refused for lack of capacity.
C17_Witness ==
  \E p \in Procs : ReserveAnswered(p) /\ loc[p].status = 400

\* C18: a webhook request whose signature is missing or does not verify is
\* answered 400 by the step that receives it, and that step changes no
\* order, no ticket and not the event; no handler runs for it.
C18_UnsignedWebhookChangesNothing ==
  [][\A p \in Procs :
       (loc'[p].sig \in {"missing", "invalid"} /\ pc'[p] # pc[p])
       => /\ pc'[p] = "done"
          /\ loc'[p].status = 400
          /\ orders' = orders
          /\ tickets' = tickets
          /\ tickets_sold' = tickets_sold]_vars

\* A request with an invalid signature was answered while an order waits
\* for its confirmation.
C18_Witness ==
  /\ \E p \in Procs : pc[p] = "done" /\ loc[p].sig = "invalid"
  /\ \E o \in 1..Len(orders) : orders[o].status = "pending"

\* C19: verify and scan never answer 404 for the token of a ticket that was
\* issued, of the local event or of an external one.
C19_IssuedTicketIsFound ==
  \A p \in Procs :
    (pc[p] = "done" /\ loc[p].op \in {"scan", "verify"} /\ TicketHasToken(loc[p].token))
      => loc[p].status # 404

\* C20: an order for which no payment_intent.succeeded event has been
\* processed (its status is not completed and no delivery of the event
\* is in progress or was acknowledged) has no ticket.
C20_NoTicketBeforeConfirmation ==
  \A o \in 1..Len(orders) :
    (/\ orders[o].status # "completed"
     /\ ~acked[o]
     /\ \A p \in Procs : ~(IsSucceeded(p) /\ loc[p].ref = o))
    => Len(tickets[o]) = 0


\* C21: no step of a scan made by a signed-in user who is not the host of
\* the event changes a ticket, and such a scan of a ticket that was found is
\* answered 403 "Only the event host can scan tickets".
C21_OnlyHostConsumes ==
  [][\A p \in Procs :
       (loc[p].op = "scan" /\ loc[p].scanner # EventHost /\ pc[p] # pc'[p])
       => /\ tickets' = tickets
          /\ (pc[p] = "sc_check" =>
                /\ pc'[p] = "done"
                /\ loc'[p].status = 403
                /\ loc'[p].msg = "Only the event host can scan tickets")]_vars

\* A guest scanned a valid ticket inside the entry window and was refused.
C21_Witness ==
  \E p \in Procs :
    /\ pc[p] = "done" /\ loc[p].op = "scan"
    /\ loc[p].scanner = "guest"
    /\ loc[p].tstatus = "valid"
    /\ EventAccessible(loc[p].at)
    /\ loc[p].status = 403
    /\ TicketHasToken(loc[p].token)
    /\ tickets[loc[p].token[1]][loc[p].token[2]].status = "valid"


\* Handler p holds a connection of the pool: the client of its transaction
\* or the connection of its db.query.
HoldsConnection(p) ==
  pc[p] \in {"rv_lock", "rv_check", "rv_commit",
             "ps_lock", "ps_update", "ps_count", "ps_insert", "pf_update"}

\* Handler p holds the row lock of its order and the client of its
\* transaction and waits in createTickets for another connection of the pool.
WaitsForPool(p) ==
  /\ pc[p] = "ps_insert"
  /\ loc[p].i < loc[p].qty
  /\ orderLock[loc[p].ref] = p
  /\ ~PoolHasFree

\* C22: no handler that holds a row lock and its connection waits for a
\* connection of the pool while every connection is held by a handler that
\* waits for one as well (itself included).
C22_NoHandlerWaitsOnWaiters ==
  ~ \E p \in Procs :
      /\ WaitsForPool(p)
      /\ otherInUse = 0
      /\ \A q \in Procs : HoldsConnection(q) => WaitsForPool(q)


\* The positions of a handler inside handleWebhookEvent.
WebhookPcs ==
  {"ps_connect", "ps_lock", "ps_update", "ps_count", "ps_insert",
   "pf_connect", "pf_update", "ra_query", "au_done"}

\* The step is one of process p handling a webhook request, from its
\* arrival to its answer.
WebhookStep(p) ==
  /\ <<pc[p], loc[p]>> # <<pc'[p], loc'[p]>>
  /\ \/ pc[p] \in WebhookPcs
     \/ pc[p] = "idle" /\ loc'[p].op \in WebhookEventTypes \cup {"rejected"}

\* C23: no step of a webhook handler changes tickets_sold, whether the
\* payment is confirmed or failed.
C23_WebhooksKeepTicketsSold ==
  [][\A p \in Procs : WebhookStep(p) => tickets_sold' = tickets_sold]_vars

\* One order was confirmed and got its tickets, the other was marked
\* failed, and tickets_sold still counts both.
C23_Witness ==
  /\ Len(orders) = 2
  /\ \E o \in 1..2 :
       /\ orders[o].status = "completed" /\ Len(tickets[o]) = orders[o].quantity
       /\ orders[3 - o].status = "failed"
  /\ tickets_sold = orders[1].quantity + orders[2].quantity
  /\ \E p \in Procs :
       pc[p] = "done" /\ loc[p].op = "payment_intent.payment_failed"


\* The event types the reconciler acts upon.
ReconciledEvents ==
  {"payment_intent.succeeded", "payment_intent.payment_failed",
   "payment_intent.requires_action"}

\* C24: every step of a correctly signed webhook request whose event type
\* is none of the three the reconciler acts upon leaves the orders, the
\* tickets and the event as they were, and its answer has status 200.
C24_OtherEventTypesAreNoOps ==
  [][\A p \in Procs :
       (/\ WebhookStep(p)
        /\ loc'[p].op \in WebhookEventTypes \ ReconciledEvents)
       => /\ orders' = orders
          /\ tickets' = tickets
          /\ tickets_sold' = tickets_sold
          /\ pc'[p] = "done" => loc'[p].status = 200]_vars

\* An event of a type without handler and an account.updated event have
\* been acknowledged while an order was pending.
C24_Witness ==
  /\ \E p \in Procs :
       pc[p] = "done" /\ loc[p].op = "charge.refunded" /\ loc[p].status = 200
  /\ \E p \in Procs :
       pc[p] = "done" /\ loc[p].op = "account.updated" /\ loc[p].status = 200
  /\ \E o \in 1..Len(orders) : orders[o].status = "pending"


\* C25: a ticket that is used, cancelled or refunded is never changed
\* again: its status, scanned_at and scanned_by stay what they are under
\* every step of scan and verify.
C25_TerminalTicketStates ==
  [][\A o \in OrderIds : \A i \in 1..Len(tickets[o]) :
       tickets[o][i].status # "valid" => tickets'[o][i] = tickets[o][i]]_vars


\* Process p is about to read the record with a wrong candidate while the
\* record is there, not expired and below the attempt ceiling.
WrongCandidateOnLiveRecord(p) ==
  /\ pc[p] = "ov_get"
  /\ Stored # NoOtp
  /\ now <= Stored.expiresAt
  /\ Stored.attempts < MAX_ATTEMPTS
  /\ ~constantTimeCompare(loc[p].code, Stored.code)

\* C26: a verify call with a wrong candidate on a record that is not
\* expired and below the ceiling goes on to persist the record it read with
\* one attempt more, the same code and the same expiresAt; what it then
\* writes is that record, kept by Redis no longer than expiresAt, and the
\* call returns false.
C26_WrongCandidateIsCounted ==
  [][\A p \in Procs :
       /\ (WrongCandidateOnLiveRecord(p) /\ pc'[p] # "ov_get")
          => /\ pc'[p] = "ov_set"
             /\ loc'[p].rec = [Stored EXCEPT !.attempts = @ + 1]
       /\ (pc[p] = "ov_set" /\ pc'[p] # "ov_set")
          => /\ loc'[p].msg = "false"
             /\ otpStore'.code = loc[p].rec.code
             /\ otpStore'.expiresAt = loc[p].rec.expiresAt
             /\ otpStore'.attempts = loc[p].rec.attempts
             /\ otpStore'.ttlEnd <= loc[p].rec.expiresAt]_vars


\* Every status an order can have.
OrderStatuses == {"pending", "completed", "failed", "refunded"}

\* C27: the step that answers a reservation with 200 adds one order, in
\* status pending and of the quantity asked, and adds that quantity to
\* tickets_sold; no other step adds an order or changes tickets_sold; and
\* tickets_sold is the sum of the quantities of all the orders, whatever
\* their status.
C27_ReservationCountsItsOrder ==
  [][/\ \A p \in Procs :
          (pc[p] \in {"rv_lock", "rv_check", "rv_commit"} /\ pc'[p] = "done"
           /\ loc'[p].status = 200)
          => /\ orders' = Append(orders, [quantity |-> loc[p].qty,
                                           status |-> "pending",
                                           event |-> "local"])
             /\ tickets_sold' = tickets_sold + loc[p].qty
     /\ (Len(orders') # Len(orders) \/ tickets_sold' # tickets_sold)
          => /\ Len(orders') = Len(orders) + 1
             /\ tickets_sold' = tickets_sold + orders'[Len(orders')].quantity
     /\ tickets_sold = SumQuantity(Len(orders), OrderStatuses)]_vars

\* Two reservations went through; one of the orders was completed and the
\* other marked failed since.
C27_Witness ==
  /\ Len(orders) = 2
  /\ {orders[1].status, orders[2].status} = {"completed", "failed"}
  /\ tickets_sold = orders[1].quantity + orders[2].quantity
  /\ \E p \in Procs : ReserveAnswered(p) /\ loc[p].status = 200 /\ loc[p].ref = 2


\* C28: as long as every passcode has more than a second to live (so that
\* every wrong candidate is written back), at most MAX_ATTEMPTS wrong
\* candidates have been compared with the passcode issued last, however
\* the verify calls interleave.
C28_NoIncrementIsLost ==
  now < ExpiryMillis - MillisPerSecond => otpHist.wrong <= MAX_ATTEMPTS


\* C29: a verify call that writes the record back never replaces the code
\* or the expiry of the record that is stored at that time: what
\* generateOTP stored last stays the record of the identifier.
C29_ReissueIsNotOverwritten ==
  [][\A p \in Procs :
       (pc[p] = "ov_set" /\ pc'[p] # "ov_set" /\ Stored # NoOtp)
       => /\ otpStore'.code = Stored.code
          /\ otpStore'.expiresAt = Stored.expiresAt]_vars


\* C30: at most one run of the event sync is in progress and isRunning says
\* whether one is; a cron run that starts while the job is running returns
\* "Job already running" without a call of the sync, runNow while the job is
\* running is refused with 409, and the step that ends a run, in success or
\* in failure, clears isRunning.
C30_OneSyncRunAtATime ==
  [][/\ RunsInProgress <= 1
     /\ job.isRunning <=> RunsInProgress = 1
     /\ \A p \in Procs :
          /\ (pc[p] = "idle" /\ pc'[p] # "idle" /\ job.isRunning
              /\ loc'[p].op = "sync.cron")
             => /\ pc'[p] = "done"
                /\ loc'[p].err /\ loc'[p].msg = "Job already running"
                /\ job' = job
          /\ (pc[p] = "idle" /\ pc'[p] # "idle" /\ job.isRunning
              /\ loc'[p].op = "sync.runNow")
             => /\ pc'[p] = "done"
                /\ loc'[p].status = 409
                /\ job' = job
          /\ (pc[p] \in SyncPcs /\ pc'[p] = "done") => ~job'.isRunning]_vars

\* A run is in progress after an earlier run failed, and a runNow made
\* meanwhile has been refused.
C30_Witness ==
  \E p, q \in Procs :
    /\ pc[p] \in SyncPcs
    /\ pc[q] = "done" /\ loc[q].op = "sync.runNow" /\ loc[q].status = 409
    /\ job.errorCount > 0
    /\ job.isRunning

\* C6: an order that is completed stays completed, whatever webhook is
\* handled after or beside its completion.
C6_CompletedIsNeverDowngraded ==
  [][\A o \in 1..Len(orders) :
       orders[o].status = "completed" => orders'[o].status = "completed"]_vars

\* C7: in every state other handlers can see, the tickets of an order are
\* either none or order.quantity of them.
C7_NoPartialTicketSet ==
  \A o \in LocalOrders : Len(tickets[o]) \in {0, orders[o].quantity}

\* C8: when a step of handlePaymentSucceeded fails after BEGIN, the order
\* keeps the status it had before the call and no ticket inserted by the
\* call is left.
C8_FailureRollsBackEverything ==
  [][\A p \in Procs :
       (/\ pc[p] \in {"ps_update", "ps_count", "ps_insert"}
        /\ pc'[p] = "done"
        /\ loc'[p].err)
       => /\ orders'[loc[p].ref].status = loc[p].ostatus
          /\ Len(tickets'[loc[p].ref]) = Len(tickets[loc[p].ref]) - loc[p].i]_vars

\* The confirmation event of order o has been delivered.
Delivered(o) ==
  /\ OrderExists(o)
  /\ acked[o] \/ \E p \in Procs : IsSucceeded(p) /\ loc[p].ref = o

\* C9: an order whose confirmation event was delivered eventually has
\* exactly order.quantity tickets, when the processor redelivers the event
\* until it is acknowledged and the processing errors eventually stop.
C9_ConfirmedOrderEventuallyHasTickets ==
  \A o \in OrderIds :
    Delivered(o) ~> (OrderExists(o) /\ Len(tickets[o]) = orders[o].quantity)

\* Answers that make the processor deliver the event again.
Retryable(code) == code >= 300

\* C10: the answer to a supported event tells the processing errors from
\* the rest: a handler that met a processing error answers with a
\* retryable status, any other one (a business error included) with 200.
C10_ResponseClassifiesOutcome ==
  \A p \in Procs :
    (pc[p] = "done" /\ isSupportedWebhookEvent(loc[p].op))
      => IF loc[p].err THEN Retryable(loc[p].status) ELSE loc[p].status = 200

=============================================================================
